---- MODULE Spec2Model ----
(***************************************************************************)
(* Model of src/Assignment_8_start.py: LinkedBinaryTree, TreeMap and       *)
(* AVLTreeMap.  A map object "A", a second map object "B" (empty except in *)
(* the runs about two maps) and the nodes and items they have created.     *)
(* Nodes are numbered 1, 2, ... in creation order and are never reused.  A *)
(* number also stands for the Position of that node that a client may      *)
(* still hold after the node was removed; its _container is the map that   *)
(* hands out Positions for the node: the map that created it, or the map   *)
(* it was attached to.                                                     *)
(***************************************************************************)
EXTENDS Integers, Sequences, FiniteSets, TLC

\* ---------------------------------------------------------------- bounds
MaxNodes == 4           \* nodes the map may create in the runs of Spec
MaxKey == 4             \* keys are 1..MaxKey in the runs of Spec
MaxLogNodes == 3        \* nodes the map may create in the runs of SpecLog
MaxLogKey == 2          \* keys are 1..MaxLogKey in the runs of SpecLog

MaxTwoNodes == 3        \* nodes the two maps may create in the runs of SpecTwo

MaxRotNodes == 3        \* nodes the map may create in the runs of SpecR
MaxFactor == 2          \* stored balance factors stay in -MaxFactor..MaxFactor
                        \* in the runs of SpecR and SpecS
MaxShapeNodes == 6      \* nodes the map may create in the runs of SpecS
MaxMutNodes == 4        \* nodes the tree may create in the runs of SpecM
MaxAttachNodes == 3     \* nodes the trees may create in the runs of SpecT
MaxAvlNodes == 4        \* nodes the map may create in the runs of SpecF
MaxPairNodes == 3       \* nodes each map may create in the runs of SpecPair

Keys == 1..MaxKey

\* the keys the map stores in the runs of SpecR
RotKeys == {1, 2, 3}

\* the keys the map stores in the runs of SpecS
ShapeKeys == 1..MaxShapeNodes

\* the keys the map stores in the runs of SpecF
AvlKeys == 1..MaxAvlNodes

\* the balance factors a node stores in the runs of SpecF: those of a
\* height-balanced tree and of a node one insertion or removal away from it
AvlFactors == -2..2

\* the keys the two maps store in the runs of SpecPair
PairKeys == 1..MaxPairNodes

\* the keys the two maps store in the runs of SpecTwo
TwoKeys == {1, 2}
LogKeys == 1..MaxLogKey

\* Values are opaque to the map; these are the two the tests store.
Values == {"hi", "anything"}

\* Python's None, as a node / position / result
None == 0

NoExc == "none"

VARIABLES
  cls,             \* "TreeMap" or "AVLTreeMap": the class of the map object
  root,            \* self._root
  size,            \* self._size
  parent,          \* node -> _parent
  left,            \* node -> _left
  right,           \* node -> _right
  element,         \* node -> the _Item object it refers to
  key,             \* item -> _key
  value,           \* item -> _value
  balance_factor,  \* node -> _balance_factor (AVLTreeMap._Node)
  container,       \* node -> _container of the Positions made for it
  other,           \* the map object "B": its class, _root and _size
  last             \* history: the last public call and how it ended,
                   \* recorded in the runs that start with the log on

vars == <<cls, root, size, parent, left, right, element, key, value,
          balance_factor, container, other, last>>

\* The map object "A" together with the heap, as one value the operators
\* below take and return.
Self ==
  [id |-> "A", cls |-> cls, root |-> root, size |-> size, parent |-> parent,
   left |-> left, right |-> right, element |-> element, key |-> key,
   value |-> value, balance_factor |-> balance_factor,
   container |-> container]

\* The map object "B" together with the heap.
Other == [Self EXCEPT !.id = "B", !.cls = other.cls, !.root = other.root,
                      !.size = other.size]

\* Outcome of a call: the heap afterwards, the exception raised (or NoExc)
\* and the value returned.
Return(t, r) == [t |-> t, exc |-> NoExc, ret |-> r]
Raise(t, e) == [t |-> t, exc |-> e, ret |-> None]

\* Sequencing of two calls: an exception raised by the first propagates,
\* otherwise the second runs on the heap and the result the first left.
Bind(r, F(_, _)) == IF r.exc /= NoExc THEN r ELSE F(r.t, r.ret)

Allocated(t) == 1..Len(t.parent)

KeyOf(t, p) == t.key[t.element[p]]
ValueOf(t, p) == t.value[t.element[p]]

\* ------------------------------------------------- LinkedBinaryTree

\* mutant of validate: the container of the position is not looked at
validate_any_container(t, p) ==
  IF p = None THEN "TypeError"
  ELSE IF t.parent[p] = p THEN "ValueError"
  ELSE NoExc

\* _validate: the exception it raises for position p, or NoExc
validate(t, p) ==
  IF p = None THEN "TypeError"
  ELSE IF t.container[p] /= t.id THEN "ValueError"
  ELSE IF t.parent[p] = p THEN "ValueError"
  ELSE NoExc

\* node = self._validate(p); then the rest of the method, r
WhenValid(t, p, r) ==
  IF validate(t, p) = NoExc THEN r ELSE Raise(t, validate(t, p))

num_children(t, p) ==
  (IF t.left[p] /= None THEN 1 ELSE 0) + (IF t.right[p] /= None THEN 1 ELSE 0)

\* the public accessors parent(p), left(p), right(p), num_children(p)
parent_of(t, p) == WhenValid(t, p, Return(t, t.parent[p]))
left_of(t, p) == WhenValid(t, p, Return(t, t.left[p]))
right_of(t, p) == WhenValid(t, p, Return(t, t.right[p]))
num_children_of(t, p) == WhenValid(t, p, Return(t, num_children(t, p)))

\* self._Node(e, parent) for a fresh _Item(k, v)
NewNode(t, k, v, par) ==
  [t EXCEPT !.parent = Append(@, par),
            !.left = Append(@, None),
            !.right = Append(@, None),
            !.element = Append(@, Len(t.key) + 1),
            !.key = Append(@, k),
            !.value = Append(@, v),
            !.balance_factor = Append(@, 0),
            !.container = Append(@, t.id)]

add_root(t, k, v) ==
  IF t.root /= None THEN Raise(t, "ValueError")
  ELSE Return([NewNode(t, k, v, None) EXCEPT
                 !.size = 1, !.root = Len(t.parent) + 1],
              Len(t.parent) + 1)

\* mutant of add_left: an occupied slot is overwritten
add_left_overwrites(t, p, k, v) ==
  WhenValid(t, p,
    Return([NewNode(t, k, v, p) EXCEPT
              !.size = t.size + 1, !.left[p] = Len(t.parent) + 1],
           Len(t.parent) + 1))

add_left(t, p, k, v) ==
  WhenValid(t, p,
    IF t.left[p] /= None THEN Raise(t, "ValueError")
    ELSE Return([NewNode(t, k, v, p) EXCEPT
                   !.size = t.size + 1, !.left[p] = Len(t.parent) + 1],
                Len(t.parent) + 1))

add_right(t, p, k, v) ==
  WhenValid(t, p,
    IF t.right[p] /= None THEN Raise(t, "ValueError")
    ELSE Return([NewNode(t, k, v, p) EXCEPT
                   !.size = t.size + 1, !.right[p] = Len(t.parent) + 1],
                Len(t.parent) + 1))

\* _replace(p, e): node p now refers to item e
replace(t, p, e) ==
  WhenValid(t, p, Return([t EXCEPT !.element[p] = e], t.element[p]))

\* the tail of _delete once `child` is computed and its parent link set
\* (t is the heap after `child._parent = node._parent`).  When the node is
\* the root the local name `parent` is never bound, so the test
\* `node is parent._left` raises UnboundLocalError after the root was
\* already replaced; the size update and the tombstone are not reached.
delete_splice(t, p, child) ==
  IF p = t.root
  THEN Raise([t EXCEPT !.root = child], "UnboundLocalError")
  ELSE IF t.parent[p] = None THEN Raise(t, "AttributeError")
  ELSE IF p = t.left[t.parent[p]]
  THEN Return([t EXCEPT !.left[t.parent[p]] = child,
                        !.size = t.size - 1, !.parent[p] = p],
              t.element[p])
  ELSE Return([t EXCEPT !.right[t.parent[p]] = child,
                        !.size = t.size - 1, !.parent[p] = p],
              t.element[p])

\* _delete(p), the local `child` given
delete_child(t, p, child) ==
  delete_splice(IF child /= None THEN [t EXCEPT !.parent[child] = t.parent[p]]
                ELSE t,
                p, child)

\* LinkedBinaryTree._delete(p)
LinkedBinaryTree_delete(t, p) ==
  WhenValid(t, p,
    IF num_children(t, p) = 2 THEN Raise(t, "ValueError")
    ELSE delete_child(t, p,
           IF t.left[p] /= None THEN t.left[p] ELSE t.right[p]))

\* _attach works on several tree objects at once.  A world w is the heap
\* (w.h, of which only the node fields are read) and the fields of each
\* tree object by name (w.maps: name -> class, _root, _size); the outcome
\* of a call is the world afterwards and the exception raised.

\* the `if not t.is_empty()` block of _attach for the tree named i: its
\* root goes below node, on the left or on the right, and the tree is
\* emptied; t._root._parent on a None root raises AttributeError
attach_one(w, node, i, make_left) ==
  IF w.maps[i].size = 0 THEN [w |-> w, exc |-> NoExc]
  ELSE IF w.maps[i].root = None THEN [w |-> w, exc |-> "AttributeError"]
  ELSE IF make_left
  THEN [w |-> [w EXCEPT !.h.parent[w.maps[i].root] = node,
                        !.h.left[node] = w.maps[i].root,
                        !.maps[i].root = None,
                        !.maps[i].size = 0],
        exc |-> NoExc]
  ELSE [w |-> [w EXCEPT !.h.parent[w.maps[i].root] = node,
                        !.h.right[node] = w.maps[i].root,
                        !.maps[i].root = None,
                        !.maps[i].size = 0],
        exc |-> NoExc]

\* the two blocks of _attach, one after the other
attach_both(w, node, i1, i2) ==
  LET r1 == attach_one(w, node, i1, TRUE)
  IN IF r1.exc /= NoExc THEN r1 ELSE attach_one(r1.w, node, i2, FALSE)

\* s._attach(p, t1, t2) for the trees named s, i1 and i2
attach(w, s, p, i1, i2) ==
  LET v == validate([w.h EXCEPT !.id = s], p)
  IN
  IF v /= NoExc THEN [w |-> w, exc |-> v]
  ELSE IF num_children(w.h, p) /= 0 THEN [w |-> w, exc |-> "ValueError"]
  ELSE IF ~(w.maps[s].cls = w.maps[i1].cls
            /\ w.maps[i1].cls = w.maps[i2].cls)
  THEN [w |-> w, exc |-> "TypeError"]
  ELSE attach_both(
         [w EXCEPT !.maps[s].size = @ + w.maps[i1].size + w.maps[i2].size],
         p, i1, i2)

\* what a generator yielded (ret) and the exception that ended it early
Yielded(e, s) == [exc |-> e, ret |-> s]

\* the yields of a left subtree, of the node, of the right subtree
InorderJoin(l, p, r) ==
  IF l.exc /= NoExc THEN l ELSE Yielded(r.exc, l.ret \o <<p>> \o r.ret)

\* _subtree_inorder(p): the nodes it yields
RECURSIVE subtree_inorder(_, _)
subtree_inorder(t, p) ==
  IF validate(t, p) /= NoExc THEN Yielded(validate(t, p), <<>>)
  ELSE InorderJoin(
         IF t.left[p] /= None THEN subtree_inorder(t, t.left[p])
         ELSE Yielded(NoExc, <<>>),
         p,
         IF t.right[p] /= None THEN subtree_inorder(t, t.right[p])
         ELSE Yielded(NoExc, <<>>))

\* inorder(): is_empty() is len(self) == 0
inorder(t) ==
  IF t.size = 0 THEN Yielded(NoExc, <<>>) ELSE subtree_inorder(t, t.root)

\* 1 + max of the children's heights; an absent child does not count
HeightJoin(l, r) ==
  IF l.exc /= NoExc THEN l
  ELSE IF r.exc /= NoExc THEN r
  ELSE Yielded(NoExc, 1 + (IF l.ret >= r.ret THEN l.ret ELSE r.ret))

\* _height2(p): 0 for a leaf, else 1 + max over the children
RECURSIVE height2(_, _)
height2(t, p) ==
  IF validate(t, p) /= NoExc THEN Yielded(validate(t, p), 0)
  ELSE IF num_children(t, p) = 0 THEN Yielded(NoExc, 0)
  ELSE HeightJoin(
         IF t.left[p] /= None THEN height2(t, t.left[p])
         ELSE Yielded(NoExc, -1),
         IF t.right[p] /= None THEN height2(t, t.right[p])
         ELSE Yielded(NoExc, -1))

\* height(p=None)
height(t, p) == height2(t, IF p = None THEN t.root ELSE p)

\* ------------------------------------------------------------ TreeMap

\* _subtree_search(p, k): the position with key k in p's subtree, or the
\* last node searched.  p.key() on None raises AttributeError.
RECURSIVE subtree_search(_, _, _)
subtree_search(t, p, k) ==
  IF p = None THEN Raise(t, "AttributeError")
  ELSE IF k = KeyOf(t, p) THEN Return(t, p)
  ELSE IF validate(t, p) /= NoExc THEN Raise(t, validate(t, p))
  ELSE IF k < KeyOf(t, p)
  THEN (IF t.left[p] /= None THEN subtree_search(t, t.left[p], k)
        ELSE Return(t, p))
  ELSE (IF t.right[p] /= None THEN subtree_search(t, t.right[p], k)
        ELSE Return(t, p))

\* mutant of iterative_search: a node with one child is taken for a leaf
RECURSIVE iterative_search_one_child_leaf(_, _, _)
iterative_search_one_child_leaf(t, p, k) ==
  IF p = None THEN Raise(t, "AttributeError")
  ELSE IF KeyOf(t, p) = k THEN Return(t, p)
  ELSE IF validate(t, p) /= NoExc THEN Raise(t, validate(t, p))
  ELSE IF num_children(t, p) <= 1 THEN Return(t, p)
  ELSE IF KeyOf(t, p) > k
  THEN (IF t.left[p] /= None
        THEN iterative_search_one_child_leaf(t, t.left[p], k)
        ELSE Return(t, p))
  ELSE IF KeyOf(t, p) < k
  THEN (IF t.right[p] /= None
        THEN iterative_search_one_child_leaf(t, t.right[p], k)
        ELSE Return(t, p))
  ELSE Return(t, None)

\* iterative_search(p, key): p.key() on None raises AttributeError, is_leaf
\* validates p, and a call that passes all four tests returns None
RECURSIVE iterative_search(_, _, _)
iterative_search(t, p, k) ==
  IF p = None THEN Raise(t, "AttributeError")
  ELSE IF KeyOf(t, p) = k THEN Return(t, p)
  ELSE IF validate(t, p) /= NoExc THEN Raise(t, validate(t, p))
  ELSE IF num_children(t, p) = 0 THEN Return(t, p)
  ELSE IF KeyOf(t, p) > k
  THEN (IF t.left[p] /= None THEN iterative_search(t, t.left[p], k)
        ELSE Return(t, p))
  ELSE IF KeyOf(t, p) < k
  THEN (IF t.right[p] /= None THEN iterative_search(t, t.right[p], k)
        ELSE Return(t, p))
  ELSE Return(t, None)

RECURSIVE subtree_first_position(_, _)
subtree_first_position(t, p) ==
  IF validate(t, p) /= NoExc THEN Raise(t, validate(t, p))
  ELSE IF t.left[p] /= None THEN subtree_first_position(t, t.left[p])
  ELSE Return(t, p)

\* mutant of subtree_last_position: the walk to the right is forgotten
subtree_last_position_no_walk(t, p) == WhenValid(t, p, Return(t, p))

RECURSIVE subtree_last_position(_, _)
subtree_last_position(t, p) ==
  IF validate(t, p) /= NoExc THEN Raise(t, validate(t, p))
  ELSE IF t.right[p] /= None THEN subtree_last_position(t, t.right[p])
  ELSE Return(t, p)

\* the upward walk of after(p): leave through `right` links
RECURSIVE after_walk(_, _, _)
after_walk(t, walk, above) ==
  IF above = None THEN Return(t, None)
  ELSE IF validate(t, above) /= NoExc THEN Raise(t, validate(t, above))
  ELSE IF walk = t.right[above] THEN after_walk(t, above, t.parent[above])
  ELSE Return(t, above)

\* mutant of after: the upward walk is forgotten
after_no_climb(t, p) ==
  WhenValid(t, p,
    IF t.right[p] /= None THEN subtree_first_position(t, t.right[p])
    ELSE Return(t, None))

after(t, p) ==
  WhenValid(t, p,
    IF t.right[p] /= None THEN subtree_first_position(t, t.right[p])
    ELSE after_walk(t, p, t.parent[p]))

\* the upward walk of before(p): leave through `left` links
RECURSIVE before_walk(_, _, _)
before_walk(t, walk, above) ==
  IF above = None THEN Return(t, None)
  ELSE IF validate(t, above) /= NoExc THEN Raise(t, validate(t, above))
  ELSE IF walk = t.left[above] THEN before_walk(t, above, t.parent[above])
  ELSE Return(t, above)

\* mutant of before: the upward walk is forgotten
before_no_climb(t, p) ==
  WhenValid(t, p,
    IF t.left[p] /= None THEN subtree_last_position(t, t.left[p])
    ELSE Return(t, None))

before(t, p) ==
  WhenValid(t, p,
    IF t.left[p] /= None THEN subtree_last_position(t, t.left[p])
    ELSE before_walk(t, p, t.parent[p]))

\* first(): self.root() is None when _root is None, whatever len(self) is
first(t) ==
  IF t.size > 0 THEN subtree_first_position(t, t.root) ELSE Return(t, None)

\* last()
TreeMap_last(t) ==
  IF t.size > 0 THEN subtree_last_position(t, t.root) ELSE Return(t, None)

\* yield p.key(), then the rest of the loop
KeyCons(t, p, rest) == Yielded(rest.exc, <<KeyOf(t, p)>> \o rest.ret)

\* the loop of __iter__: r is the outcome of the expression that gave p
RECURSIVE iter_walk(_, _)
iter_walk(t, r) ==
  IF r.exc /= NoExc THEN Yielded(r.exc, <<>>)
  ELSE IF r.ret = None THEN Yielded(NoExc, <<>>)
  ELSE KeyCons(t, r.ret, iter_walk(t, after(t, r.ret)))

\* __iter__(): the keys it yields
iter(t) == iter_walk(t, first(t))

\* the loop of __reversed__
RECURSIVE reversed_walk(_, _)
reversed_walk(t, r) ==
  IF r.exc /= NoExc THEN Yielded(r.exc, <<>>)
  ELSE IF r.ret = None THEN Yielded(NoExc, <<>>)
  ELSE KeyCons(t, r.ret, reversed_walk(t, before(t, r.ret)))

\* __reversed__(): the keys it yields
reversed(t) == reversed_walk(t, TreeMap_last(t))

\* find_position(k); _rebalance_access is a no-op in both classes
find_position(t, k) ==
  IF t.size = 0 THEN Return(t, None) ELSE subtree_search(t, t.root, k)

\* the step of find_ge after find_position returned p
ge_step(t, p, k) == IF KeyOf(t, p) < k THEN after(t, p) ELSE Return(t, p)

\* find_ge(k): the node whose (key, value) pair is returned, or None
find_ge(t, k) ==
  IF t.size = 0 THEN Return(t, None)
  ELSE Bind(find_position(t, k), LAMBDA t1, p : ge_step(t1, p, k))

\* the steps of find_le, find_lt and find_gt after find_position returned p
le_step(t, p, k) == IF k < KeyOf(t, p) THEN before(t, p) ELSE Return(t, p)
lt_step(t, p, k) == IF ~(KeyOf(t, p) < k) THEN before(t, p) ELSE Return(t, p)
gt_step(t, p, k) == IF ~(k < KeyOf(t, p)) THEN after(t, p) ELSE Return(t, p)

\* find_le(k), find_lt(k), find_gt(k): the node whose (key, value) pair is
\* returned, or None
find_le(t, k) ==
  IF t.size = 0 THEN Return(t, None)
  ELSE Bind(find_position(t, k), LAMBDA t1, p : le_step(t1, p, k))

find_lt(t, k) ==
  IF t.size = 0 THEN Return(t, None)
  ELSE Bind(find_position(t, k), LAMBDA t1, p : lt_step(t1, p, k))

find_gt(t, k) ==
  IF t.size = 0 THEN Return(t, None)
  ELSE Bind(find_position(t, k), LAMBDA t1, p : gt_step(t1, p, k))

\* None passed as the start or the stop of find_range: no bound
Unbounded == -1

\* the loop of find_range: r is the outcome of the expression that gave p
\* (an exception there ends the generator), the walk goes on through after
RangeCons(p, rest) == Yielded(rest.exc, <<p>> \o rest.ret)

RECURSIVE range_walk(_, _, _)
range_walk(t, r, stop) ==
  IF r.exc /= NoExc THEN Yielded(r.exc, <<>>)
  ELSE IF r.ret = None THEN Yielded(NoExc, <<>>)
  ELSE IF stop /= Unbounded /\ ~(KeyOf(t, r.ret) < stop)
  THEN Yielded(NoExc, <<>>)
  ELSE RangeCons(r.ret, range_walk(t, after(t, r.ret), stop))

\* find_range(start, stop): the nodes whose (key, value) pairs it yields
find_range(t, start, stop) ==
  IF t.size = 0 THEN Yielded(NoExc, <<>>)
  ELSE range_walk(t,
                  IF start = Unbounded THEN first(t)
                  ELSE Bind(find_position(t, start),
                            LAMBDA t1, p : ge_step(t1, p, start)),
                  stop)

\* _relink(parent, child, make_left_child)
relink(t, par, child, make_left_child) ==
  IF child /= None
  THEN (IF make_left_child
        THEN [t EXCEPT !.left[par] = child, !.parent[child] = par]
        ELSE [t EXCEPT !.right[par] = child, !.parent[child] = par])
  ELSE (IF make_left_child THEN [t EXCEPT !.left[par] = child]
        ELSE [t EXCEPT !.right[par] = child])

\* mutant of rotate_top: x always becomes the left child of z
rotate_top_left_slot(t, x, y, z) ==
  IF z = None THEN [t EXCEPT !.root = x, !.parent[x] = None]
  ELSE relink(t, z, x, TRUE)

\* _rotate, first part: x takes y's place under z, or becomes the root
rotate_top(t, x, y, z) ==
  IF z = None THEN [t EXCEPT !.root = x, !.parent[x] = None]
  ELSE relink(t, z, x, y = t.left[z])

\* mutant of rotate_pair: the middle subtree is dropped
rotate_pair_drops_middle(t, x, y) ==
  IF x = t.left[y]
  THEN relink(relink(t, y, None, TRUE), x, y, FALSE)
  ELSE relink(relink(t, y, None, FALSE), x, y, TRUE)

\* _rotate, second part: x and y trade places, the middle subtree moves
rotate_pair(t, x, y) ==
  IF x = t.left[y]
  THEN relink(relink(t, y, t.right[x], TRUE), x, y, FALSE)
  ELSE relink(relink(t, y, t.left[x], FALSE), x, y, TRUE)

\* TreeMap._rotate(p); no validation, attribute access on None raises
TreeMap_rotate(t, p) ==
  IF p = None THEN Raise(t, "AttributeError")
  ELSE IF t.parent[p] = None THEN Raise(t, "AttributeError")
  ELSE Return(rotate_pair(rotate_top(t, p, t.parent[p],
                                     t.parent[t.parent[p]]),
                          p, t.parent[p]),
              None)

\* -------------------------------------------------------- AVLTreeMap

Max(a, b) == IF a >= b THEN a ELSE b
Min(a, b) == IF a <= b THEN a ELSE b

\* the three exercise stubs: their bodies are `pass`
update_balance_factor_for_add(t, p) == t
update_balance_factor_for_delete(t, p) == t
update_balance_factor_for_rotate(t, p) == t

isbalanced(t, p) ==
  t.balance_factor[p] >= -1 /\ t.balance_factor[p] <= 1

\* _tall_child(p, favorleft): p._node on None raises AttributeError
tall_child(t, p, favorleft) ==
  IF p = None THEN Raise(t, "AttributeError")
  ELSE IF t.balance_factor[p] + (IF favorleft THEN 1 ELSE 0) > 0
  THEN WhenValid(t, p, Return(t, t.left[p]))
  ELSE WhenValid(t, p, Return(t, t.right[p]))

tall_grandchild(t, p) ==
  Bind(tall_child(t, p, FALSE),
       LAMBDA t1, child : tall_child(t1, child, child = t1.left[p]))

\* mutant of rotate_factor_y: the correction term takes min for max and
\* max for min
rotate_factor_y_swapped(t, x, y, x_was_left) ==
  [t EXCEPT !.balance_factor[y] =
     IF x_was_left
     THEN t.balance_factor[y] - 1 - Min(t.balance_factor[x], 0)
     ELSE t.balance_factor[y] + 1 - Max(t.balance_factor[x], 0)]

\* the closed-form balance factors of AVLTreeMap._rotate: the assignment to
\* y._balance_factor, then the one to x._balance_factor, which reads y's
\* new factor; x_was_left tells which branch ran
rotate_factor_y(t, x, y, x_was_left) ==
  [t EXCEPT !.balance_factor[y] =
     IF x_was_left
     THEN t.balance_factor[y] - 1 - Max(t.balance_factor[x], 0)
     ELSE t.balance_factor[y] + 1 - Min(t.balance_factor[x], 0)]

rotate_factor_x(t, x, y, x_was_left) ==
  [t EXCEPT !.balance_factor[x] =
     IF x_was_left
     THEN t.balance_factor[x] - 1 + Min(t.balance_factor[y], 0)
     ELSE t.balance_factor[x] + 1 + Max(t.balance_factor[y], 0)]

rotate_factors(t, x, y, x_was_left) ==
  rotate_factor_x(rotate_factor_y(t, x, y, x_was_left), x, y, x_was_left)

\* AVLTreeMap._rotate(p): the relinking of TreeMap._rotate, then the two
\* balance factors, then the stub
AVLTreeMap_rotate(t, p) ==
  IF p = None THEN Raise(t, "AttributeError")
  ELSE IF t.parent[p] = None THEN Raise(t, "AttributeError")
  ELSE Return(
         update_balance_factor_for_rotate(
           rotate_factors(
             rotate_pair(rotate_top(t, p, t.parent[p], t.parent[t.parent[p]]),
                         p, t.parent[p]),
             p, t.parent[p],
             p = rotate_top(t, p, t.parent[p],
                            t.parent[t.parent[p]]).left[t.parent[p]]),
           p),
         None)

\* self._rotate(p), dispatched on the class of the map
rotate(t, p) ==
  IF t.cls = "AVLTreeMap" THEN AVLTreeMap_rotate(t, p) ELSE TreeMap_rotate(t, p)

\* mutant of restructure_rotate: opposite alignments get one rotation of x
restructure_rotate_once(t, x, y, z) ==
  IF (x = t.right[y]) = (y = t.right[z])
  THEN Bind(rotate(t, y), LAMBDA t1, r : Return(t1, y))
  ELSE Bind(rotate(t, x), LAMBDA t2, r : Return(t2, x))

\* _restructure, the rotations, once y and z are known
restructure_rotate(t, x, y, z) ==
  IF (x = t.right[y]) = (y = t.right[z])
  THEN Bind(rotate(t, y), LAMBDA t1, r : Return(t1, y))
  ELSE Bind(Bind(rotate(t, x), LAMBDA t1, r : rotate(t1, x)),
            LAMBDA t2, r : Return(t2, x))

\* _restructure(x): returns the position that tops the three nodes
restructure(t, x) ==
  WhenValid(t, x,
    WhenValid(t, t.parent[x],
      WhenValid(t, t.parent[t.parent[x]],
        restructure_rotate(t, x, t.parent[x], t.parent[t.parent[x]]))))

\* _rebalance(p): walk to the root, restructuring where a node's stored
\* balance factor is out of [-1, 1]
RECURSIVE rebalance(_, _)
rebalance(t, p) ==
  IF p = None THEN Return(t, None)
  ELSE Bind(Bind(IF isbalanced(t, p) THEN Return(t, p)
                 ELSE Bind(tall_grandchild(t, p),
                           LAMBDA t1, g : restructure(t1, g)),
                 LAMBDA t2, q : parent_of(t2, q)),
            LAMBDA t3, a : rebalance(t3, a))

\* the walk the comments of update_balance_factor_for_add describe: +1 at a
\* parent reached from its left child, -1 from its right child, up to the
\* root or to the first parent whose factor becomes 0
RECURSIVE add_factors(_, _)
add_factors(t, p) ==
  IF t.parent[p] = None THEN t
  ELSE IF t.balance_factor[t.parent[p]]
          + (IF p = t.left[t.parent[p]] THEN 1 ELSE -1) = 0
  THEN [t EXCEPT !.balance_factor[t.parent[p]] = 0]
  ELSE add_factors(
         [t EXCEPT !.balance_factor[t.parent[p]] =
            @ + (IF p = t.left[t.parent[p]] THEN 1 ELSE -1)],
         t.parent[p])

\* mutant of rebalance_insert: the factors are updated as the comments
\* describe and the rebalancing walk is left out
rebalance_insert_no_rebalance(t, p) ==
  IF t.cls = "AVLTreeMap" THEN Return(add_factors(t, p), None)
  ELSE Return(t, None)

\* mutant of rebalance_insert: the factors are updated as the comments
\* describe before the rebalancing walk
rebalance_insert_with_factors(t, p) ==
  IF t.cls = "AVLTreeMap" THEN rebalance(add_factors(t, p), p)
  ELSE Return(t, None)

\* the hooks, dispatched on the class of the map
rebalance_insert(t, p) ==
  IF t.cls = "AVLTreeMap"
  THEN rebalance(update_balance_factor_for_add(t, p), p)
  ELSE Return(t, None)

rebalance_delete(t, p) ==
  IF t.cls = "AVLTreeMap" THEN rebalance(t, p) ELSE Return(t, None)

\* ------------------------------------------- the public map interface

\* TreeMap.delete(p) from `parent = self.parent(p)` on
TreeMap_delete_tail(t, p) ==
  WhenValid(t, p,
    Bind(LinkedBinaryTree_delete(t, p),
         LAMBDA t1, e : rebalance_delete(t1, t.parent[p])))

\* TreeMap.delete(p)
TreeMap_delete(t, p) ==
  WhenValid(t, p,
    IF t.left[p] /= None /\ t.right[p] /= None
    THEN Bind(subtree_last_position(t, t.left[p]),
              LAMBDA t1, replacement :
                Bind(replace(t1, p, t1.element[replacement]),
                     LAMBDA t2, old : TreeMap_delete_tail(t2, replacement)))
    ELSE TreeMap_delete_tail(t, p))

\* AVLTreeMap.delete(p) from `parent = self.parent(p)` on
AVLTreeMap_delete_tail(t, p) ==
  WhenValid(t, p,
    Bind(LinkedBinaryTree_delete(update_balance_factor_for_delete(t, p), p),
         LAMBDA t1, e : rebalance_delete(t1, t.parent[p])))

\* AVLTreeMap.delete(p)
AVLTreeMap_delete(t, p) ==
  WhenValid(t, p,
    IF t.left[p] /= None /\ t.right[p] /= None
    THEN Bind(subtree_last_position(t, t.left[p]),
              LAMBDA t1, replacement :
                Bind(replace(t1, p, t1.element[replacement]),
                     LAMBDA t2, old : AVLTreeMap_delete_tail(t2, replacement)))
    ELSE AVLTreeMap_delete_tail(t, p))

\* self.delete(p), dispatched on the class of the map
delete(t, p) ==
  IF t.cls = "AVLTreeMap" THEN AVLTreeMap_delete(t, p) ELSE TreeMap_delete(t, p)

\* __getitem__ after the search returned p
getitem_found(t, p, k) ==
  IF k /= KeyOf(t, p) THEN Raise(t, "KeyError") ELSE Return(t, ValueOf(t, p))

\* __getitem__(k)
getitem(t, k) ==
  IF t.size = 0 THEN Raise(t, "KeyError")
  ELSE Bind(subtree_search(t, t.root, k),
            LAMBDA t1, p : getitem_found(t1, p, k))

\* mutant of setitem_found: the new item goes to the wrong side
setitem_found_swapped(t, p, k, v) ==
  IF KeyOf(t, p) = k
  THEN Return([t EXCEPT !.value[t.element[p]] = v], None)
  ELSE Bind(IF KeyOf(t, p) < k THEN add_left(t, p, k, v)
            ELSE add_right(t, p, k, v),
            LAMBDA t1, leaf : rebalance_insert(t1, leaf))

\* mutant of setitem_found: an overwrite is counted as a new element
setitem_found_recount(t, p, k, v) ==
  IF KeyOf(t, p) = k
  THEN Return([t EXCEPT !.value[t.element[p]] = v, !.size = t.size + 1],
              None)
  ELSE Bind(IF KeyOf(t, p) < k THEN add_right(t, p, k, v)
            ELSE add_left(t, p, k, v),
            LAMBDA t1, leaf : rebalance_insert(t1, leaf))

\* __setitem__ after the search returned p
setitem_found(t, p, k, v) ==
  IF KeyOf(t, p) = k
  THEN Return([t EXCEPT !.value[t.element[p]] = v], None)
  ELSE Bind(IF KeyOf(t, p) < k THEN add_right(t, p, k, v)
            ELSE add_left(t, p, k, v),
            LAMBDA t1, leaf : rebalance_insert(t1, leaf))

\* __setitem__(k, v)
setitem(t, k, v) ==
  IF t.size = 0
  THEN Bind(add_root(t, k, v), LAMBDA t1, leaf : rebalance_insert(t1, leaf))
  ELSE Bind(subtree_search(t, t.root, k),
            LAMBDA t1, p : setitem_found(t1, p, k, v))

\* __delitem__ after the search returned p
delitem_found(t, p, k) ==
  IF k = KeyOf(t, p)
  THEN Bind(delete(t, p), LAMBDA t1, r : Return(t1, None))
  ELSE Raise(t, "KeyError")

\* __delitem__(k)
delitem(t, k) ==
  IF t.size /= 0
  THEN Bind(subtree_search(t, t.root, k),
            LAMBDA t1, p : delitem_found(t1, p, k))
  ELSE Raise(t, "KeyError")

\* ------------------------------------------------------- state machine

Classes == {"TreeMap", "AVLTreeMap"}

\* the map object and heap become t
Becomes(t) ==
  /\ cls' = t.cls
  /\ root' = t.root
  /\ size' = t.size
  /\ parent' = t.parent
  /\ left' = t.left
  /\ right' = t.right
  /\ element' = t.element
  /\ key' = t.key
  /\ value' = t.value
  /\ balance_factor' = t.balance_factor
  /\ container' = t.container

\* the map object "B" and the heap become t
OtherBecomes(t) ==
  /\ other' = [cls |-> t.cls, root |-> t.root, size |-> t.size]
  /\ parent' = t.parent
  /\ left' = t.left
  /\ right' = t.right
  /\ element' = t.element
  /\ key' = t.key
  /\ value' = t.value
  /\ balance_factor' = t.balance_factor
  /\ container' = t.container

LogOff == [op |-> "off", k |-> None, v |-> "", p |-> None, exc |-> NoExc]
LogOn == [op |-> "init", k |-> None, v |-> "", p |-> None, exc |-> NoExc]

\* the call op(k, v, p) ended as r
Observe(op, k, v, p, r) ==
  last' = IF last.op = "off" THEN last
          ELSE [op |-> op, k |-> k, v |-> v, p |-> p, exc |-> r.exc]

\* TreeMap() / AVLTreeMap(): LinkedBinaryTree.__init__
InitClass(c) ==
  /\ cls = c
  /\ root = None
  /\ size = 0
  /\ parent = <<>>
  /\ left = <<>>
  /\ right = <<>>
  /\ element = <<>>
  /\ key = <<>>
  /\ value = <<>>
  /\ balance_factor = <<>>
  /\ container = <<>>

\* a second map object, freshly constructed
NewMap(c) == [cls |-> c, root |-> None, size |-> 0]

\* map "B" is constructed and never used
Alone == other = NewMap("TreeMap")

\* m[k] = v
SetItem(k, v) ==
  LET r == setitem(Self, k, v)
  IN Becomes(r.t) /\ Observe("setitem", k, v, None, r) /\ UNCHANGED other

\* del m[k]
DelItem(k) ==
  LET r == delitem(Self, k)
  IN Becomes(r.t) /\ Observe("delitem", k, "", None, r) /\ UNCHANGED other

\* m.delete(p), p any Position of this map the client ever obtained
Delete(p) ==
  LET r == delete(Self, p)
  IN Becomes(r.t) /\ Observe("delete", None, "", p, r) /\ UNCHANGED other

\* the public methods that take a Position
PositionOps ==
  {"delete", "parent", "left", "right", "num_children", "before", "after"}

\* m.op(p)
Call(op, t, p) ==
  CASE op = "delete" -> delete(t, p)
    [] op = "parent" -> parent_of(t, p)
    [] op = "left" -> left_of(t, p)
    [] op = "right" -> right_of(t, p)
    [] op = "num_children" -> num_children_of(t, p)
    [] op = "before" -> before(t, p)
    [] op = "after" -> after(t, p)

\* A.op(p), p any Position the client ever obtained, from either map
PositionCall(op, p) ==
  LET r == Call(op, Self, p)
  IN Becomes(r.t) /\ Observe(op, None, "", p, r) /\ UNCHANGED other

\* B[k] = v
SetItemOther(k, v) ==
  LET r == setitem(Other, k, v)
  IN /\ OtherBecomes(r.t)
     /\ Observe("other.setitem", k, v, None, r)
     /\ UNCHANGED <<cls, root, size>>

\* m._rotate(p) and m._restructure(x), p and x any Position of this map
\* the client ever obtained
Rotate(p) ==
  LET r == rotate(Self, p)
  IN Becomes(r.t) /\ Observe("_rotate", None, "", p, r) /\ UNCHANGED other

Restructure(x) ==
  LET r == restructure(Self, x)
  IN Becomes(r.t) /\ Observe("_restructure", None, "", x, r)
     /\ UNCHANGED other

\* The general runs: either class, any calls, values all "hi".
Init == (\E c \in Classes : InitClass(c)) /\ last = LogOff /\ Alone

Next ==
  \/ \E k \in Keys : SetItem(k, "hi") /\ Len(parent') <= MaxNodes
  \/ \E k \in Keys : DelItem(k)
  \/ \E p \in Allocated(Self) : Delete(p)

Spec == Init /\ [][Next]_vars

\* The logged runs: either class, any calls with either value, each call
\* recorded in `last`.
InitLog == (\E c \in Classes : InitClass(c)) /\ last = LogOn /\ Alone

NextLog ==
  \/ \E k \in LogKeys, v \in Values :
       SetItem(k, v) /\ Len(parent') <= MaxLogNodes
  \/ \E k \in LogKeys : DelItem(k)
  \/ \E p \in Allocated(Self) : Delete(p)

SpecLog == InitLog /\ [][NextLog]_vars

\* one step of the search for the nodes reachable from the nodes S
ReachStep(t, S) ==
  (S \cup {t.left[n] : n \in S} \cup {t.right[n] : n \in S}) \ {None}

RECURSIVE Reach(_, _)
Reach(t, S) == IF ReachStep(t, S) = S THEN S ELSE Reach(t, ReachStep(t, S))

\* the nodes reachable from the root through left and right links
Reachable(t) == IF t.root = None THEN {} ELSE Reach(t, {t.root})

\* parent and child links are reciprocal on the nodes reachable from the
\* root, the root has no parent and no reachable node carries the tombstone
LinksReciprocal(t) ==
  /\ t.root /= None => t.parent[t.root] = None
  /\ \A n \in Reachable(t) :
       /\ t.parent[n] /= n
       /\ t.left[n] /= None => t.parent[t.left[n]] = n
       /\ t.right[n] /= None => t.parent[t.right[n]] = n
       /\ n /= t.root =>
            /\ t.parent[n] /= None
            /\ n = t.left[t.parent[n]] \/ n = t.right[t.parent[n]]

\* a walk down from node n ends within d steps: it runs out of children or
\* meets a node that validation rejects
RECURSIVE WalkEnds(_, _, _)
WalkEnds(t, n, d) ==
  IF n = None THEN TRUE
  ELSE IF validate(t, n) /= NoExc THEN TRUE
  ELSE IF d = 0 THEN FALSE
  ELSE WalkEnds(t, t.left[n], d - 1) /\ WalkEnds(t, t.right[n], d - 1)

\* the heap is as set and delete leave it: the links of the tree are
\* reciprocal, and a node outside the tree carries the tombstone or is a
\* former root (no parent) from which every walk ends.  On other heaps the
\* loops of the code need not terminate.
Sound(t) ==
  /\ LinksReciprocal(t)
  /\ \A n \in Allocated(t) \ Reachable(t) :
       /\ t.parent[n] = n \/ t.parent[n] = None
       /\ WalkEnds(t, n, Len(t.parent))

\* every stored balance factor is within the bound of the runs
FactorsBounded ==
  \A n \in 1..Len(balance_factor') :
    balance_factor'[n] >= -MaxFactor /\ balance_factor'[n] <= MaxFactor

\* The restructuring runs: either class, set and delete calls and direct
\* calls of _rotate and _restructure with any Position the client holds.
\* A run is followed up to the first state whose heap is not sound.
InitR == (\E c \in Classes : InitClass(c)) /\ last = LogOff /\ Alone

NextR ==
  \/ \E k \in RotKeys :
       /\ Sound(Self)
       /\ SetItem(k, "hi")
       /\ Len(parent') <= MaxRotNodes
       /\ FactorsBounded
  \/ \E p \in Allocated(Self) : Sound(Self) /\ Delete(p) /\ FactorsBounded
  \/ \E p \in Allocated(Self) : Sound(Self) /\ Rotate(p) /\ FactorsBounded
  \/ \E x \in Allocated(Self) :
       Sound(Self) /\ Restructure(x) /\ FactorsBounded

SpecR == InitR /\ [][NextR]_vars

\* The runs with two maps: A and B of either class are filled, and A is
\* called with Positions of both maps.
InitTwo ==
  /\ \E c \in Classes : InitClass(c)
  /\ \E c \in Classes : other = NewMap(c)
  /\ last = LogOn

NextTwo ==
  \/ \E k \in TwoKeys : SetItem(k, "hi") /\ Len(parent') <= MaxTwoNodes
  \/ \E k \in TwoKeys : SetItemOther(k, "hi") /\ Len(parent') <= MaxTwoNodes
  \/ \E op \in PositionOps, p \in Allocated(Self) : PositionCall(op, p)

SpecTwo == InitTwo /\ [][NextTwo]_vars

\* ------------------------------------------------------ scenario runs

Range(q) == {q[i] : i \in 1..Len(q)}

\* the (key, value) items were created for exactly these keys, in this
\* order: `key` lists the keys of the items in creation order
ScenarioA == <<10, 5, 15, 2, 7, 12, 18>>
ScenarioB == <<0, 1, 2, 3, 4>>
ScenarioC == <<4, 2, 6, 1, 3, 5, 7>>

\* no item was created for k yet
Fresh(k) == \A i \in 1..Len(key) : key[i] /= k

\* every node ever created is still in the tree
Intact == Len(inorder(Self).ret) = Len(parent)

\* Scenario A: a TreeMap filled with the keys of ScenarioA, in any order.
InitA == InitClass("TreeMap") /\ last = LogOn /\ Alone
NextA == \E k \in Range(ScenarioA) : Fresh(k) /\ SetItem(k, "hi")
SpecA == InitA /\ [][NextA]_vars

\* Scenario B: an AVLTreeMap filled with the keys of ScenarioB, in any
\* order.
InitB == InitClass("AVLTreeMap") /\ last = LogOn /\ Alone
NextB == \E k \in Range(ScenarioB) : Fresh(k) /\ SetItem(k, "anything")
SpecB == InitB /\ [][NextB]_vars

\* Scenario C: a map filled with the keys of ScenarioC, in any order, and
\* then one delete(p).
InitC == (\E c \in Classes : InitClass(c)) /\ last = LogOn /\ Alone
NextC ==
  \/ \E k \in Range(ScenarioC) : Fresh(k) /\ SetItem(k, "hi")
  \/ \E p \in Allocated(Self) :
       Len(key) = Len(ScenarioC) /\ Intact /\ Delete(p)
SpecC == InitC /\ [][NextC]_vars

\* The shape runs: a map of either class is filled with the keys 1, 2, ...
\* in this order, and between the insertions _rotate and _restructure are
\* called with Positions of its nodes, so that the tree takes every shape
\* the keys allow.
InitS == (\E c \in Classes : InitClass(c)) /\ last = LogOn /\ Alone

NextS ==
  \/ \E k \in ShapeKeys :
       k = Len(key) + 1 /\ SetItem(k, "hi") /\ FactorsBounded
  \/ \E p \in Allocated(Self) : Rotate(p) /\ FactorsBounded
  \/ \E x \in Allocated(Self) : Restructure(x) /\ FactorsBounded

SpecS == InitS /\ [][NextS]_vars

\* every stored balance factor is one of AvlFactors
FactorsInAvlRange ==
  \A n \in 1..Len(balance_factor') : balance_factor'[n] \in AvlFactors

\* t._add_root(e), t._add_left(p, e), t._add_right(p, e) and t._delete(p)
\* called by a client directly, e a fresh item, p any Position of this
\* tree the client ever obtained
AddRoot(k) ==
  LET r == add_root(Self, k, "hi")
  IN Becomes(r.t) /\ Observe("_add_root", k, "hi", None, r)
     /\ UNCHANGED other

AddLeft(p, k) ==
  LET r == add_left(Self, p, k, "hi")
  IN Becomes(r.t) /\ Observe("_add_left", k, "hi", p, r) /\ UNCHANGED other

AddRight(p, k) ==
  LET r == add_right(Self, p, k, "hi")
  IN Becomes(r.t) /\ Observe("_add_right", k, "hi", p, r)
     /\ UNCHANGED other

LowDelete(p) ==
  LET r == LinkedBinaryTree_delete(Self, p)
  IN Becomes(r.t) /\ Observe("_delete", None, "", p, r) /\ UNCHANGED other

\* The mutator runs: a tree of either class is built and taken apart with
\* the nonpublic mutators of LinkedBinaryTree alone, each new node
\* holding the next key.
InitM == (\E c \in Classes : InitClass(c)) /\ last = LogOn /\ Alone

NextM ==
  \/ AddRoot(Len(key) + 1) /\ Len(parent') <= MaxMutNodes
  \/ \E p \in Allocated(Self) :
       AddLeft(p, Len(key) + 1) /\ Len(parent') <= MaxMutNodes
  \/ \E p \in Allocated(Self) :
       AddRight(p, Len(key) + 1) /\ Len(parent') <= MaxMutNodes
  \/ \E p \in Allocated(Self) : LowDelete(p)

SpecM == InitM /\ [][NextM]_vars

\* the tree objects an _attach on A may be given: B, and a tree C the
\* client constructs for the call
Sources == {"B", "C"}

\* how the client prepares C: C = TreeMap() or AVLTreeMap(), left empty or
\* given one item
Preparations == Classes \X {FALSE, TRUE}

\* the tree C of preparation c, with the heap after it was prepared
Prepared(c) ==
  IF c[2]
  THEN setitem([Self EXCEPT !.id = "C", !.cls = c[1], !.root = None,
                            !.size = 0],
               1, "hi").t
  ELSE [Self EXCEPT !.id = "C", !.cls = c[1], !.root = None, !.size = 0]

\* the world in which A._attach(p, t1, t2) runs once C is prepared
WorldWith(c) ==
  LET tc == Prepared(c)
  IN [h |-> tc,
      maps |-> [i \in {"A", "B", "C"} |->
                  IF i = "A" THEN [cls |-> cls, root |-> root, size |-> size]
                  ELSE IF i = "B" THEN other
                  ELSE [cls |-> tc.cls, root |-> tc.root, size |-> tc.size]]]

\* the nodes below p in world w
Grafted(w, p) ==
  Reach(w.h, {w.h.left[p], w.h.right[p]} \ {None})

\* A._attach(p, t1, t2), p any Position the client ever obtained from A or
\* B, t1 and t2 among B and the prepared C.  The Positions the client
\* holds afterwards for the nodes now below p are those A hands out.
Attach(p, i1, i2, c) ==
  LET w0 == WorldWith(c)
      r == attach(w0, "A", p, i1, i2)
  IN /\ cls' = r.w.maps["A"].cls
     /\ root' = r.w.maps["A"].root
     /\ size' = r.w.maps["A"].size
     /\ other' = r.w.maps["B"]
     /\ parent' = r.w.h.parent
     /\ left' = r.w.h.left
     /\ right' = r.w.h.right
     /\ element' = r.w.h.element
     /\ key' = r.w.h.key
     /\ value' = r.w.h.value
     /\ balance_factor' = r.w.h.balance_factor
     /\ container' = [n \in 1..Len(r.w.h.container) |->
                        IF r.exc = NoExc /\ n \in Grafted(r.w, p) THEN "A"
                        ELSE r.w.h.container[n]]
     /\ Observe("_attach", None, "", p, r)

\* The attach runs: A and B of either class are filled, and trees are
\* attached below the nodes of A; C is prepared only for a call that is
\* given it.
InitT ==
  /\ \E c \in Classes : InitClass(c)
  /\ \E c \in Classes : other = NewMap(c)
  /\ last = LogOn

NextT ==
  \/ \E k \in TwoKeys : SetItem(k, "hi") /\ Len(parent') <= MaxAttachNodes
  \/ \E k \in TwoKeys :
       SetItemOther(k, "hi") /\ Len(parent') <= MaxAttachNodes
  \/ \E p \in Allocated(Self), i1 \in Sources, i2 \in Sources,
        c \in Preparations :
       /\ "C" \notin {i1, i2} => c = <<"TreeMap", FALSE>>
       /\ Attach(p, i1, i2, c)
       /\ Len(parent') <= MaxAttachNodes

SpecT == InitT /\ [][NextT]_vars

\* The factor runs: an AVLTreeMap is filled with distinct keys in any
\* order, and _rotate is called with Positions of its nodes.
InitF == InitClass("AVLTreeMap") /\ last = LogOff /\ Alone

NextF ==
  \/ \E k \in AvlKeys : Fresh(k) /\ SetItem(k, "hi") /\ FactorsInAvlRange
  \/ \E p \in Allocated(Self) : Rotate(p) /\ FactorsInAvlRange

SpecF == InitF /\ [][NextF]_vars

\* The paired runs: A is an AVLTreeMap and B a TreeMap, both empty, and
\* every call is made on A and then, with the same arguments, on B.

\* the map object "B" on the heap t
OtherOn(t) == [t EXCEPT !.id = "B", !.cls = other.cls, !.root = other.root,
                        !.size = other.size]

\* map "A" is left as the call that ended as rA left it, map "B" and the
\* heap as the later call that ended as rB left them
BothBecome(rA, rB) ==
  /\ cls' = rA.t.cls
  /\ root' = rA.t.root
  /\ size' = rA.t.size
  /\ OtherBecomes(rB.t)

\* the nodes map i created
NodesOf(i) == {n \in 1..Len(container) : container[n] = i}

\* the Position of B the client obtained the way it obtained p of A: the
\* node B created as its j-th, for the j-th node p that A created
Counterpart(p) ==
  CHOOSE q \in NodesOf("B") :
    Cardinality({n \in NodesOf("B") : n <= q})
      = Cardinality({n \in NodesOf("A") : n <= p})

HasCounterpart(p) ==
  Cardinality(NodesOf("B")) >= Cardinality({n \in NodesOf("A") : n <= p})

\* A[k] = v; B[k] = v
PairSetItem(k, v) ==
  LET rA == setitem(Self, k, v)
      rB == setitem(OtherOn(rA.t), k, v)
  IN BothBecome(rA, rB) /\ Observe("setitem", k, v, None, rA)

\* del A[k]; del B[k]
PairDelItem(k) ==
  LET rA == delitem(Self, k)
      rB == delitem(OtherOn(rA.t), k)
  IN BothBecome(rA, rB) /\ Observe("delitem", k, "", None, rA)

\* A.delete(p); B.delete(q), q the Position of B that corresponds to p
PairDelete(p) ==
  LET rA == delete(Self, p)
      rB == delete(OtherOn(rA.t), Counterpart(p))
  IN BothBecome(rA, rB) /\ Observe("delete", None, "", p, rA)

InitPair == InitClass("AVLTreeMap") /\ last = LogOn /\ Alone

NextPair ==
  \/ \E k \in PairKeys :
       PairSetItem(k, "hi") /\ Len(parent') <= 2 * MaxPairNodes
  \/ \E k \in PairKeys : PairDelItem(k)
  \/ \E p \in NodesOf("A") : HasCounterpart(p) /\ PairDelete(p)

SpecPair == InitPair /\ [][NextPair]_vars

\* ------------------------------------------------------------- claims

\* the keys an in-order traversal yields, in the order it yields them
InorderKeys(t) ==
  [i \in 1..Len(inorder(t).ret) |-> KeyOf(t, inorder(t).ret[i])]

StrictlyAscending(q) == \A i \in 1..(Len(q) - 1) : q[i] < q[i + 1]

\* q without the entries equal to x
Without(q, x) == SelectSeq(q, LAMBDA y : y /= x)

\* node n has been removed: it carries the tombstone
Removed(t, n) == t.parent[n] = n

\* k is the key of a node the in-order traversal reaches
Stored(t, k) == \E i \in 1..Len(InorderKeys(t)) : InorderKeys(t)[i] = k

\* the value stored with key k, for a stored k
StoredValue(t, k) ==
  LET i == CHOOSE j \in 1..Len(InorderKeys(t)) : InorderKeys(t)[j] = k
  IN ValueOf(t, inorder(t).ret[i])

\* C1: after any sequence of set and delete calls on an initially empty
\* map, the keys an in-order traversal yields are strictly ascending (so no
\* key is yielded twice).
C1_InorderAscending ==
  /\ StrictlyAscending(InorderKeys(Self))
  /\ root /= None =>
       StrictlyAscending(
         [i \in 1..Len(subtree_inorder(Self, root).ret) |->
            KeyOf(Self, subtree_inorder(Self, root).ret[i])])

\* C1 witness: three keys are traversed after a node was removed
C1_Witness ==
  /\ Len(InorderKeys(Self)) >= 3
  /\ \E n \in Allocated(Self) : Removed(Self, n)

\* C2: in every reachable state, after a call returned or raised, len(map)
\* is the number of nodes a full in-order traversal visits.
C2_SizeIsTraversalCount == size = Len(inorder(Self).ret)

\* the call recorded by a step was on a key other than k
OnOtherKey(k) ==
  \/ last'.op \in {"setitem", "delitem"} /\ last'.k /= k
  \/ last'.op = "delete" /\ KeyOf(Self, last'.p) /= k

\* C3: right after m[k] = v, m[k] returns v; and m[k] keeps returning the
\* same value across every call on another key.
C3_GetAfterSet ==
  [][/\ last'.op = "setitem" =>
          /\ getitem(Self', last'.k).exc = NoExc
          /\ getitem(Self', last'.k).ret = last'.v
     /\ \A k \in LogKeys :
          (getitem(Self, k).exc = NoExc /\ OnOtherKey(k)) =>
            /\ getitem(Self', k).exc = NoExc
            /\ getitem(Self', k).ret = getitem(Self, k).ret]_vars

\* C4: for every stored key k, del m[k] returns without error, the
\* ascending key sequence afterwards is the previous one without k, every
\* other key keeps its value and len(map) is one less.
C4_DelItemRemovesKey ==
  [][(last'.op = "delitem" /\ Stored(Self, last'.k)) =>
       /\ last'.exc = NoExc
       /\ InorderKeys(Self') = Without(InorderKeys(Self), last'.k)
       /\ \A j \in LogKeys \ {last'.k} :
            Stored(Self, j) => StoredValue(Self', j) = StoredValue(Self, j)
       /\ size' = size - 1]_vars

\* C5: m[k] = v for a stored key k changes only the value of k's item:
\* root, size, every parent/left/right link, every node's item, every key
\* and every balance factor are as before, and so is every other value.
C5_OverwriteOnlyValue ==
  [][(last'.op = "setitem" /\ Stored(Self, last'.k)) =>
       /\ last'.exc = NoExc
       /\ <<root, size, parent, left, right, element, key,
            balance_factor>>' =
          <<root, size, parent, left, right, element, key, balance_factor>>
       /\ StoredValue(Self', last'.k) = last'.v
       /\ \A i \in 1..Len(value) :
            key[i] /= last'.k => value'[i] = value[i]]_vars

\* C5 witness: item 1 (key 1) was created before item 2 (key 2), both are
\* in the tree, and the last call, m[1] = "anything", returned: it found
\* key 1 stored and overwrote its value
C5_Witness ==
  /\ key = <<1, 2>>
  /\ Intact
  /\ last.op = "setitem" /\ last.k = 1 /\ last.v = "anything"
  /\ last.exc = NoExc
  /\ value = <<"anything", "hi">>

\* C6: in every state of an AVLTreeMap reached by public set and delete
\* calls, every node's stored balance factor is -1, 0 or 1.
C6_FactorsInRange ==
  cls = "AVLTreeMap" =>
    \A n \in Allocated(Self) :
      balance_factor[n] >= -1 /\ balance_factor[n] <= 1

\* C6 witness: an AVLTreeMap whose tree is a chain of three nodes
C6_Witness ==
  /\ cls = "AVLTreeMap"
  /\ Len(inorder(Self).ret) = 3
  /\ height(Self, None).ret = 2

\* the height of the subtree at n with an absent subtree 0 and a leaf 1,
\* from the links alone
RECURSIVE ShapeHeight(_, _)
ShapeHeight(t, n) ==
  IF n = None THEN 0
  ELSE 1 + Max(ShapeHeight(t, t.left[n]), ShapeHeight(t, t.right[n]))

\* C7: in every state of an AVLTreeMap reached by public set and delete
\* calls, every node of the tree stores as balance factor the height of
\* its left subtree minus the height of its right subtree.
C7_FactorsAreHeightDifferences ==
  cls = "AVLTreeMap" =>
    \A i \in 1..Len(inorder(Self).ret) :
      LET n == inorder(Self).ret[i]
      IN balance_factor[n] =
           ShapeHeight(Self, left[n]) - ShapeHeight(Self, right[n])

\* the heights of the two subtrees of every node differ by at most 1
HeightBalanced(t) ==
  \A i \in 1..Len(inorder(t).ret) :
    LET n == inorder(t).ret[i]
        d == ShapeHeight(t, t.left[n]) - ShapeHeight(t, t.right[n])
    IN d >= -1 /\ d <= 1

\* C8: while an AVLTreeMap is built by inserting 0, 1, 2, 3, 4 in this
\* order it is height-balanced after each insertion, and the height of the
\* final tree is at most ceil(log2(6)) = 3.
C8_AscendingInsertsBalanced ==
  (\A i \in 1..Len(key) : key[i] = ScenarioB[i]) =>
    /\ HeightBalanced(Self)
    /\ (key = ScenarioB =>
          height(Self, None).exc = NoExc /\ height(Self, None).ret <= 3)

\* the node just before p in the in-order traversal
InorderPredecessor(t, p) ==
  LET i == CHOOSE j \in 1..Len(inorder(t).ret) : inorder(t).ret[j] = p
  IN inorder(t).ret[i - 1]

\* C9: delete(p) on a position with two children copies the item of p's
\* in-order predecessor into p's node and removes the predecessor's node
\* instead: p stays in the tree, the traversal loses exactly that node and
\* exactly p's old key; deleting the root, key 4, of the map built by
\* inserting 4, 2, 6, 1, 3, 5, 7 leaves the keys 1, 2, 3, 5, 6, 7.
C9_DeleteTwoChildren ==
  [][(/\ last'.op = "delete"
      /\ validate(Self, last'.p) = NoExc
      /\ left[last'.p] /= None
      /\ right[last'.p] /= None) =>
       /\ last'.exc = NoExc
       /\ element'[last'.p] = element[InorderPredecessor(Self, last'.p)]
       /\ Removed(Self', InorderPredecessor(Self, last'.p))
       /\ ~Removed(Self', last'.p)
       /\ inorder(Self').ret =
            Without(inorder(Self).ret, InorderPredecessor(Self, last'.p))
       /\ InorderKeys(Self') =
            Without(InorderKeys(Self), KeyOf(Self, last'.p))
       /\ ((key = ScenarioC /\ last'.p = root) =>
             InorderKeys(Self') = <<1, 2, 3, 5, 6, 7>>)]_vars

\* C9 witness: the map built by inserting 4, 2, 6, 1, 3, 5, 7, after
\* delete(p) of its root position returned: the root node holds the item
\* created for key 3 and the node created for key 3 is removed
C9_Witness ==
  /\ key = ScenarioC
  /\ last.op = "delete" /\ last.p = 1 /\ last.exc = NoExc
  /\ root = 1
  /\ KeyOf(Self, 1) = 3
  /\ Removed(Self, 5)
  /\ cls = "AVLTreeMap"

\* C10 as stated: in the TreeMap built by inserting 10, 5, 15, 2, 7, 12,
\* 18 in this order, find_ge(8) returns the pair whose key is 12.
C10_FindGe8Is12 ==
  key = ScenarioA =>
    /\ find_ge(Self, 8).exc = NoExc
    /\ find_ge(Self, 8).ret /= None
    /\ KeyOf(Self, find_ge(Self, 8).ret) = 12

\* C10 amended: in the TreeMap built by inserting 10, 5, 15, 2, 7, 12, 18
\* in this order, find_ge(8) returns the pair whose key is 10, the least
\* stored key that is >= 8.
C10_FindGe8Is10 ==
  key = ScenarioA =>
    /\ find_ge(Self, 8).exc = NoExc
    /\ find_ge(Self, 8).ret /= None
    /\ KeyOf(Self, find_ge(Self, 8).ret) = 10

\* C10 witness: the map of the scenario, all seven keys inserted
C10_Witness == key = ScenarioA /\ size = 7 /\ last.op = "setitem"

\* the keys of the nodes the in-order traversal reaches
StoredKeys(t) == Range(InorderKeys(t))

\* node n is in the tree: the in-order traversal reaches it
InTree(t, n) == n \in Range(inorder(t).ret)

SetMax(S) == CHOOSE x \in S : \A y \in S : y <= x
SetMin(S) == CHOOSE x \in S : \A y \in S : x <= y

\* probe keys: every key a run may store, one below and one above
ProbeKeys == 0..(MaxKey + 1)

\* the call that ended as r returned the node of the tree (its position, or
\* its (key, value) pair) that holds the greatest (or the least) key of Q,
\* or None when Q is empty
ReturnsPairOf(t, r, Q, greatest) ==
  /\ r.exc = NoExc
  /\ IF Q = {} THEN r.ret = None
     ELSE /\ r.ret /= None
          /\ r.ret \in Range(inorder(t).ret)
          /\ KeyOf(t, r.ret) = (IF greatest THEN SetMax(Q) ELSE SetMin(Q))

\* C11: on every reachable map and for every probe key k, find_le, find_lt,
\* find_ge and find_gt return the pair with the greatest key <= k, the
\* greatest key < k, the least key >= k and the least key > k among the
\* stored keys, and return None without raising when no stored key
\* qualifies.
C11_FindNearest ==
  \A k \in ProbeKeys :
    /\ ReturnsPairOf(Self, find_le(Self, k),
                     {j \in StoredKeys(Self) : j <= k}, TRUE)
    /\ ReturnsPairOf(Self, find_lt(Self, k),
                     {j \in StoredKeys(Self) : j < k}, TRUE)
    /\ ReturnsPairOf(Self, find_ge(Self, k),
                     {j \in StoredKeys(Self) : j >= k}, FALSE)
    /\ ReturnsPairOf(Self, find_gt(Self, k),
                     {j \in StoredKeys(Self) : j > k}, FALSE)

\* key k lies in the half-open interval from start to stop
InRange(k, start, stop) ==
  /\ start = Unbounded \/ start <= k
  /\ stop = Unbounded \/ k < stop

\* C12: for every start and stop, each a probe key or absent (no bound),
\* find_range(start, stop) ends without error having yielded, in ascending
\* key order and each once, exactly the pairs of the tree's nodes whose key
\* k has start <= k < stop; nothing when the map holds no item.
C12_FindRange ==
  \A start \in ProbeKeys \cup {Unbounded}, stop \in ProbeKeys \cup {Unbounded} :
    /\ find_range(Self, start, stop).exc = NoExc
    /\ find_range(Self, start, stop).ret =
         SelectSeq(inorder(Self).ret,
                   LAMBDA n : InRange(KeyOf(Self, n), start, stop))

\* C13: in every reachable state and for every position p of a node of the
\* tree, before(p) returns the position holding the greatest stored key
\* smaller than p's key and after(p) the position holding the least stored
\* key greater than p's key (None when there is none); on a map that
\* stores keys, before(first()) and after(last()) return None.
C13_BeforeAfter ==
  /\ \A p \in Allocated(Self) :
       InTree(Self, p) =>
         /\ ReturnsPairOf(Self, before(Self, p),
                          {j \in StoredKeys(Self) : j < KeyOf(Self, p)}, TRUE)
         /\ ReturnsPairOf(Self, after(Self, p),
                          {j \in StoredKeys(Self) : j > KeyOf(Self, p)}, FALSE)
  /\ StoredKeys(Self) /= {} =>
       /\ Bind(first(Self), LAMBDA t1, p : before(t1, p)) = Return(Self, None)
       /\ Bind(TreeMap_last(Self), LAMBDA t1, p : after(t1, p)) =
            Return(Self, None)

\* C13 witness: after a node was removed, a leaf of the tree has both
\* neighbours, each an ancestor that before and after reach by walking up
C13_Witness ==
  /\ \E n \in Allocated(Self) : Removed(Self, n)
  /\ \E p \in Allocated(Self) :
       /\ InTree(Self, p)
       /\ left[p] = None /\ right[p] = None
       /\ before(Self, p).ret /= None
       /\ after(Self, p).ret /= None

Reverse(q) == [i \in 1..Len(q) |-> q[Len(q) + 1 - i]]

\* C14: on every reachable map, iterating the map ends without error
\* having yielded every stored key once, in strictly ascending order,
\* len(map) keys in total, and reversed(map) yields the same keys in the
\* reverse order.
C14_IterationOrder ==
  /\ iter(Self).exc = NoExc
  /\ iter(Self).ret = InorderKeys(Self)
  /\ StrictlyAscending(iter(Self).ret)
  /\ Len(iter(Self).ret) = size
  /\ reversed(Self).exc = NoExc
  /\ reversed(Self).ret = Reverse(iter(Self).ret)

\* C15: in every reachable state and for every key k that is not stored,
\* m[k] and del m[k] raise KeyError and leave the map as it was; so on a
\* map that holds no item m[k] raises KeyError for every key.
C15_MissingKeyRaisesKeyError ==
  \A k \in ProbeKeys \ StoredKeys(Self) :
    /\ getitem(Self, k) = Raise(Self, "KeyError")
    /\ delitem(Self, k) = Raise(Self, "KeyError")

\* C16: a call of delete, parent, left, right, num_children, before or
\* after on map A with a Position whose container is map B raises
\* ValueError and leaves both maps and every node as they were.
C16_ForeignPositionRejected ==
  [][(last'.op \in PositionOps /\ container[last'.p] /= "A") =>
       /\ last'.exc = "ValueError"
       /\ Self' = Self
       /\ other' = other]_vars

\* C16 witness: A and B both store the key 1 and nothing else, and the last
\* call, A.delete(p) with a Position p of B, raised ValueError
C16_Witness ==
  /\ last.op = "delete"
  /\ container[last.p] = "B"
  /\ last.exc = "ValueError"
  /\ StoredKeys(Self) = {1}
  /\ StoredKeys(Other) = {1}

\* C17: in every reachable state, for every Position p of the map whose
\* node a delete has taken out of the tree (every node was put in the tree
\* when it was created), each of parent, left, right, num_children, before,
\* after and delete called with p raises ValueError and leaves the tree as
\* it was.
C17_StalePositionRejected ==
  \A p \in Allocated(Self) :
    ~InTree(Self, p) =>
      \A op \in PositionOps : Call(op, Self, p) = Raise(Self, "ValueError")

\* C18: in every state reachable by set, delete, _rotate and _restructure,
\* parent and child links are reciprocal for all nodes reachable from the
\* root: a child's parent is the node it hangs from, every non-root node is
\* the left or right child of its parent, the root's parent is None and no
\* node of the tree carries the self-parent tombstone.
C18_LinksReciprocal == LinksReciprocal(Self)

\* node n holds the in-order neighbour of the missing key k and its child
\* slot on k's side is empty
NeighbourWithFreeSlot(t, n, k) ==
  \/ /\ KeyOf(t, n) < k
     /\ KeyOf(t, n) = SetMax({j \in StoredKeys(t) : j < k})
     /\ t.right[n] = None
  \/ /\ KeyOf(t, n) > k
     /\ KeyOf(t, n) = SetMin({j \in StoredKeys(t) : j > k})
     /\ t.left[n] = None

\* C19: find_position(k) returns without error; on a map that stores keys
\* it returns the position of a node of the tree: the one holding k when k
\* is stored, otherwise one that holds the in-order neighbour of k and has
\* no child on k's side; on a map that stores nothing it returns None.
C19_FindPosition ==
  \A k \in ProbeKeys :
    /\ find_position(Self, k).exc = NoExc
    /\ IF StoredKeys(Self) = {} THEN find_position(Self, k).ret = None
       ELSE /\ find_position(Self, k).ret /= None
            /\ InTree(Self, find_position(Self, k).ret)
            /\ IF k \in StoredKeys(Self)
               THEN KeyOf(Self, find_position(Self, k).ret) = k
               ELSE NeighbourWithFreeSlot(Self, find_position(Self, k).ret, k)

\* the nodes of the subtree rooted at p
SubtreeNodes(t, p) == Range(subtree_inorder(t, p).ret)

\* the call that ended as r returned the node of p's subtree holding k when
\* there is one, otherwise the node where the descent from p toward k ran
\* out of children (the neighbour of k in p's subtree, no child on k's side)
SearchResult(t, r, p, k) ==
  LET S == SubtreeNodes(t, p)
  IN  /\ r.exc = NoExc
      /\ r.t = t
      /\ r.ret \in S
      /\ IF \E n \in S : KeyOf(t, n) = k
         THEN KeyOf(t, r.ret) = k
         ELSE \/ KeyOf(t, r.ret) < k /\ t.right[r.ret] = None
              \/ KeyOf(t, r.ret) > k /\ t.left[r.ret] = None

\* C20: in every reachable state, for every position p of a node of the
\* tree and every key k, iterative_search(p, k) returns the same position as
\* _subtree_search(p, k): the node with key k in p's subtree if there is
\* one, else the last node visited on the way down from p.
C20_IterativeSearchAgrees ==
  \A p \in Allocated(Self) :
    InTree(Self, p) =>
      \A k \in ProbeKeys :
        LET r == iterative_search(Self, p, k)
        IN  /\ r = subtree_search(Self, p, k)
            /\ SearchResult(Self, r, p, k)

\* C20 witness: after a node was removed, a search for a missing key
\* that starts below the root, at a node with one child, goes on to a
\* node further down
C20_Witness ==
  /\ \E n \in Allocated(Self) : Removed(Self, n)
  /\ \E p \in Allocated(Self), k \in ProbeKeys :
       /\ InTree(Self, p)
       /\ p /= root
       /\ num_children(Self, p) = 1
       /\ k \notin StoredKeys(Self)
       /\ iterative_search(Self, p, k).ret /= p

\* C21: in every reachable state, every operation that receives a Position
\* which _validate rejects (another map's, or a removed node's) raises
\* what _validate raises and changes nothing: the public position
\* methods, _restructure, _rotate, and iterative_search for every key.
C21_PositionsValidated ==
  \A p \in Allocated(Self) :
    validate(Self, p) /= NoExc =>
      /\ \A op \in PositionOps :
           Call(op, Self, p) = Raise(Self, validate(Self, p))
      /\ restructure(Self, p) = Raise(Self, validate(Self, p))
      /\ rotate(Self, p) = Raise(Self, validate(Self, p))
      /\ \A k \in ProbeKeys :
           iterative_search(Self, p, k) = Raise(Self, validate(Self, p))

\* C22: every insertion of a new key into an AVLTreeMap leaves the balance
\* factors as the walk from the new node toward the root sets them: +1 at a
\* parent reached from its left child, -1 from its right child, ending at
\* the first ancestor whose factor becomes 0; every other factor is kept.
C22_AddUpdatesFactors ==
  [][(/\ cls = "AVLTreeMap"
      /\ last'.op = "setitem"
      /\ last'.exc = NoExc
      /\ Len(parent') = Len(parent) + 1)
     => balance_factor' =
          add_factors([Self' EXCEPT !.balance_factor =
                                      Append(balance_factor, 0)],
                      Len(parent')).balance_factor]_vars

\* p is the position of a node of the tree other than its root
NonRoot(t, p) == InTree(t, p) /\ p /= t.root

\* t2 is t with p rotated above its parent y: p in y's slot under the
\* grandparent z (or the root), p's inner child moved to y on the side p
\* had, y below p on the opposite side, the two other subtrees in place
RotatedAbove(t, t2, p) ==
  LET y == t.parent[p]
      z == t.parent[y]
      was_left == p = t.left[y]
      inner == IF was_left THEN t.right[p] ELSE t.left[p]
      outer == IF was_left THEN t.left[p] ELSE t.right[p]
      sibling == IF was_left THEN t.right[y] ELSE t.left[y]
  IN  /\ IF z = None
         THEN t2.root = p /\ t2.parent[p] = None
         ELSE /\ t2.root = t.root
              /\ t2.parent[p] = z
              /\ t2.parent[z] = t.parent[z]
              /\ IF y = t.left[z]
                 THEN t2.left[z] = p /\ t2.right[z] = t.right[z]
                 ELSE t2.right[z] = p /\ t2.left[z] = t.left[z]
      /\ t2.parent[y] = p
      /\ IF was_left
         THEN /\ t2.right[p] = y /\ t2.left[p] = outer
              /\ t2.left[y] = inner /\ t2.right[y] = sibling
         ELSE /\ t2.left[p] = y /\ t2.right[p] = outer
              /\ t2.right[y] = inner /\ t2.left[y] = sibling
      /\ inner /= None => t2.parent[inner] = y
      /\ outer /= None => t2.parent[outer] = p
      /\ sibling /= None => t2.parent[sibling] = y

\* C23: in every reachable state and for every position p of a node of the
\* tree other than the root, _rotate(p) returns and leaves p in its
\* parent's former slot under the grandparent (or as the root, with parent
\* None), p's inner child as the parent's child on the side p had, the
\* parent as p's child on the opposite side, and p's outer subtree and the
\* parent's other subtree where they were.
C23_RotateRelinks ==
  \A p \in Allocated(Self) :
    NonRoot(Self, p) =>
      /\ rotate(Self, p).exc = NoExc
      /\ RotatedAbove(Self, rotate(Self, p).t, p)

\* C23 witness: after a rotation was made, a node of the tree has a
\* grandparent, an inner and an outer child, so that the rotation of it
\* moves a subtree and relinks under the grandparent
C23_Witness ==
  /\ last.op = "_rotate" /\ last.exc = NoExc
  /\ \E p \in Allocated(Self) :
       /\ NonRoot(Self, p)
       /\ parent[parent[p]] /= None
       /\ left[p] /= None /\ right[p] /= None
       /\ rotate(Self, p).t.left[parent[p]] = right[p]

\* the links of node n are the same in t and t2
SameLinks(t, t2, n) ==
  /\ t2.parent[n] = t.parent[n]
  /\ t2.left[n] = t.left[n]
  /\ t2.right[n] = t.right[n]

\* C24: in every reachable state and for every position p of a node of the
\* tree other than the root, _rotate(p) leaves the in-order sequence of
\* nodes and their items, the set of nodes reachable from the root and
\* len(map) unchanged, changes no link of a node other than p, its
\* parent, its grandparent and its inner child, and changes the root
\* reference only when the parent was the root.
C24_RotateFrame ==
  \A p \in Allocated(Self) :
    NonRoot(Self, p) =>
      LET t2 == rotate(Self, p).t
          y == parent[p]
          inner == IF p = left[y] THEN right[p] ELSE left[p]
      IN  /\ inorder(t2) = inorder(Self)
          /\ Reachable(t2) = Reachable(Self)
          /\ t2.element = element /\ t2.key = key /\ t2.value = value
          /\ t2.size = size
          /\ t2.cls = cls /\ t2.container = container
          /\ \A n \in Allocated(Self) \ {p, y, parent[y], inner} :
               SameLinks(Self, t2, n)
          /\ y /= root => t2.root = root

\* C24 witness: after a rotation was made, the tree has five nodes, and the
\* rotation of a node with a grandparent and an inner child leaves a node
\* outside the four untouched
C24_Witness ==
  /\ last.op = "_rotate" /\ last.exc = NoExc
  /\ Len(inorder(Self).ret) = 5
  /\ \E p \in Allocated(Self) :
       /\ NonRoot(Self, p)
       /\ parent[parent[p]] /= None
       /\ (IF p = left[parent[p]] THEN right[p] ELSE left[p]) /= None
       /\ rotate(Self, p).t.root = root

\* node n stores the height of its left subtree minus that of its right
FactorIsDifference(t, n) ==
  t.balance_factor[n] =
    ShapeHeight(t, t.left[n]) - ShapeHeight(t, t.right[n])

\* C25: in every reachable state of an AVLTreeMap and for every node p of
\* the tree other than the root, if p and its parent store the height
\* difference of their subtrees then after _rotate(p) both again store
\* the height difference of their new subtrees, whether p was a left or
\* a right child.
C25_RotateKeepsFactors ==
  \A p \in Allocated(Self) :
    (/\ cls = "AVLTreeMap"
     /\ NonRoot(Self, p)
     /\ FactorIsDifference(Self, p)
     /\ FactorIsDifference(Self, parent[p]))
    => /\ rotate(Self, p).exc = NoExc
       /\ FactorIsDifference(rotate(Self, p).t, p)
       /\ FactorIsDifference(rotate(Self, p).t, parent[p])

\* C25 witness: after a rotation was made (a stored factor is not 0), a
\* node and its parent store their height differences, neither 0, and the
\* rotation of the node changes its factor to its new height difference
C25_Witness ==
  /\ cls = "AVLTreeMap"
  /\ \E n \in Allocated(Self) : balance_factor[n] /= 0
  /\ \E p \in Allocated(Self) :
       /\ NonRoot(Self, p)
       /\ FactorIsDifference(Self, p) /\ FactorIsDifference(Self, parent[p])
       /\ balance_factor[p] /= 0 /\ balance_factor[parent[p]] /= 0
       /\ FactorIsDifference(rotate(Self, p).t, p)
       /\ rotate(Self, p).t.balance_factor[p] /= balance_factor[p]

\* x is the position of a node of the tree that has a grandparent
HasGrandparent(t, x) ==
  /\ InTree(t, x)
  /\ t.parent[x] /= None
  /\ t.parent[t.parent[x]] /= None

\* x, its parent and its grandparent
Trio(t, x) == {x, t.parent[x], t.parent[t.parent[x]]}

\* the node of the trio with the least, the middle and the greatest key
TrioLow(t, x) ==
  CHOOSE a \in Trio(t, x) : \A n \in Trio(t, x) : KeyOf(t, a) <= KeyOf(t, n)
TrioHigh(t, x) ==
  CHOOSE c \in Trio(t, x) : \A n \in Trio(t, x) : KeyOf(t, n) <= KeyOf(t, c)
TrioMiddle(t, x) ==
  CHOOSE b \in Trio(t, x) : b /= TrioLow(t, x) /\ b /= TrioHigh(t, x)

\* the four subtrees hanging below the trio, left to right (None for an
\* absent one): the children of the three nodes, in key order, that are
\* not themselves of the trio
FourSubtrees(t, x) ==
  SelectSeq(<<t.left[TrioLow(t, x)], t.right[TrioLow(t, x)],
              t.left[TrioMiddle(t, x)], t.right[TrioMiddle(t, x)],
              t.left[TrioHigh(t, x)], t.right[TrioHigh(t, x)]>>,
            LAMBDA n : n \notin Trio(t, x))

\* in t2 node b tops the trio of x in the grandparent's former slot, the
\* two others are its children and the four subtrees hang below them in
\* their order
Restructured(t, t2, x, b) ==
  LET z == t.parent[t.parent[x]]
      g == t.parent[z]
      a == TrioLow(t, x)
      c == TrioHigh(t, x)
      T == FourSubtrees(t, x)
  IN  /\ b = TrioMiddle(t, x)
      /\ IF g = None
         THEN t2.root = b /\ t2.parent[b] = None
         ELSE /\ t2.root = t.root
              /\ t2.parent[b] = g
              /\ IF z = t.left[g]
                 THEN t2.left[g] = b /\ t2.right[g] = t.right[g]
                 ELSE t2.right[g] = b /\ t2.left[g] = t.left[g]
      /\ t2.left[b] = a /\ t2.parent[a] = b
      /\ t2.right[b] = c /\ t2.parent[c] = b
      /\ Len(T) = 4
      /\ t2.left[a] = T[1] /\ t2.right[a] = T[2]
      /\ t2.left[c] = T[3] /\ t2.right[c] = T[4]
      /\ \A i \in 1..4 :
           T[i] /= None =>
             /\ t2.parent[T[i]] = (IF i <= 2 THEN a ELSE c)
             /\ t2.left[T[i]] = t.left[T[i]]
             /\ t2.right[T[i]] = t.right[T[i]]
      /\ inorder(t2) = inorder(t)

\* C26: in every reachable state and for every position x of a node of the
\* tree that has a grandparent, _restructure(x) makes one rotation of the
\* parent when x and the parent are children of the same side and two
\* rotations of x otherwise, and returns the position of the node with the
\* middle key of the three, which then sits in the grandparent's former
\* slot (or is the root) with the two others as its left and right child
\* and the four subtrees below them in their left-to-right order.
C26_Restructure ==
  \A x \in Allocated(Self) :
    HasGrandparent(Self, x) =>
      LET y == parent[x]
          r == restructure(Self, x)
      IN  /\ r.exc = NoExc
          /\ r.t = (IF (x = right[y]) = (y = right[parent[y]])
                    THEN rotate(Self, y).t
                    ELSE rotate(rotate(Self, x).t, x).t)
          /\ Restructured(Self, r.t, x, r.ret)

\* C26 witness: after a restructure was made, a node of the tree is the
\* left child of a right child, both its subtrees and the subtree beside
\* its parent are present, and restructuring it returns the node itself
C26_Witness ==
  /\ last.op = "_restructure" /\ last.exc = NoExc
  /\ \E x \in Allocated(Self) :
       /\ HasGrandparent(Self, x)
       /\ x = left[parent[x]]
       /\ parent[x] = right[parent[parent[x]]]
       /\ left[x] /= None /\ right[x] /= None
       /\ right[parent[x]] /= None
       /\ restructure(Self, x).ret = x

\* C27: every call of _add_root on a tree that has a root, of _add_left or
\* _add_right with a valid position whose left or right slot is taken,
\* and of _delete with a valid position that has two children raises
\* ValueError and leaves root, links, elements and size as they were.
C27_MutatorsReject ==
  [][(\/ last'.op = "_add_root" /\ root /= None
      \/ /\ last'.op = "_add_left"
         /\ validate(Self, last'.p) = NoExc
         /\ left[last'.p] /= None
      \/ /\ last'.op = "_add_right"
         /\ validate(Self, last'.p) = NoExc
         /\ right[last'.p] /= None
      \/ /\ last'.op = "_delete"
         /\ validate(Self, last'.p) = NoExc
         /\ num_children(Self, last'.p) = 2)
     => last'.exc = "ValueError" /\ Self' = Self]_vars

\* C27 witness: _add_left was just refused at a position that has a left
\* child and no right child, in a tree of three nodes
C27_Witness ==
  /\ last.op = "_add_left" /\ last.exc = "ValueError"
  /\ validate(Self, last.p) = NoExc
  /\ left[last.p] /= None /\ right[last.p] = None
  /\ size = 3 /\ Len(inorder(Self).ret) = 3

\* the number of nodes reachable from the root of the tree named i
NodeCount(w, i) ==
  IF w.maps[i].root = None THEN 0
  ELSE Cardinality(Reach(w.h, {w.maps[i].root}))

\* C28: in every reachable state in which len(A) is the number of nodes of
\* A, for every valid position p of A and every choice of t1 and t2 among
\* B and a tree C made for the call (either class, empty or with one
\* item; t1 and t2 may be the same tree): with a leaf p and trees of A's
\* class, A._attach(p, t1, t2) returns, t1's root is p's left child and
\* t2's root p's right child, t1 and t2 have no root and size 0, and len(A)
\* is the number of nodes reachable from A's root; with a non-leaf p it
\* raises ValueError, with a leaf p and a tree of another class TypeError,
\* and nothing is changed.
C28_Attach ==
  \A p \in Allocated(Self), i1 \in Sources, i2 \in Sources,
     c \in Preparations :
    LET w0 == WorldWith(c)
        r == attach(w0, "A", p, i1, i2)
    IN (validate(Self, p) = NoExc /\ size = NodeCount(w0, "A")) =>
         IF num_children(Self, p) /= 0
         THEN r.exc = "ValueError" /\ r.w = w0
         ELSE IF ~(cls = w0.maps[i1].cls /\ cls = w0.maps[i2].cls)
         THEN r.exc = "TypeError" /\ r.w = w0
         ELSE /\ r.exc = NoExc
              /\ r.w.h.left[p] = w0.maps[i1].root
              /\ r.w.h.right[p] = w0.maps[i2].root
              /\ r.w.maps[i1] = [w0.maps[i1] EXCEPT !.root = None, !.size = 0]
              /\ r.w.maps[i2] = [w0.maps[i2] EXCEPT !.root = None, !.size = 0]
              /\ r.w.maps["A"].size = NodeCount(r.w, "A")

\* C29: in every reachable state, height(p) returns 0 for the position of
\* a leaf of the tree and 1 + the greatest height of its children
\* otherwise, and height() returns an integer, the height of the tree from
\* its root, also when the map holds nothing.
C29_Height ==
  /\ \A p \in Allocated(Self) :
       InTree(Self, p) =>
         /\ height(Self, p).exc = NoExc
         /\ height(Self, p).ret =
              IF num_children(Self, p) = 0 THEN 0
              ELSE 1 + SetMax({height(Self, c).ret :
                                 c \in {left[p], right[p]} \ {None}})
  /\ height(Self, None).exc = NoExc
  /\ height(Self, None).ret \in Nat
  /\ root /= None => height(Self, None) = height(Self, root)

\* C30: every call of m[k] = v, del m[k] or m.delete(p) that raises an
\* exception leaves the map as it was: same root, same links, same
\* items, same len(map), no node newly tombstoned.
C30_RaiseChangesNothing ==
  [][(last'.op \in {"setitem", "delitem", "delete"} /\ last'.exc /= NoExc)
     => Self' = Self]_vars

KeyOrNone(t, n) == IF n = None THEN None ELSE KeyOf(t, n)

\* the shape of the tree of map t in terms of keys: the key at the root,
\* and for each node of the tree its key with the keys of its parent, of
\* its left child and of its right child
Shape(t) ==
  [root |-> KeyOrNone(t, t.root),
   links |-> {<<KeyOf(t, n), KeyOrNone(t, t.parent[n]),
                KeyOrNone(t, t.left[n]), KeyOrNone(t, t.right[n])>> :
                n \in Reachable(t)}]

C32_SecondDelete ==
  [][(/\ last'.op = "delete"
      /\ validate(Self, last'.p) = NoExc
      /\ left[last'.p] /= None
      /\ right[last'.p] /= None) =>
       LET p == last'.p
           pred == InorderPredecessor(Self, p)
           second == delete(Self', p)
       IN /\ last'.exc = NoExc
          /\ validate(Self', p) = NoExc
          /\ InTree(Self', p)
          /\ element'[p] = element[pred]
          /\ \A op \in PositionOps : Call(op, Self', pred).exc = "ValueError"
          /\ second.exc = NoExc
          /\ StoredKeys(Self') \ StoredKeys(second.t) = {KeyOf(Self', p)}
          /\ KeyOf(Self', p) /= KeyOf(Self, p)]_vars

====
